---- MODULE Spec2Model ----
(***************************************************************************)
(* State-machine model of youtube_screenshot_processor.py: the sampling    *)
(* loop of extract_high_quality_screenshots, remove_duplicate_screenshots, *)
(* create_hd_pdf and the orchestration in process_video.                   *)
(*                                                                         *)
(* A file of the images directory is identified by int(current_time), the  *)
(* only varying part of its name; FileName gives the characters of that    *)
(* part.  The bytes of an image are an element of Contents and sha256 is   *)
(* modelled as injective on them.  Durations are counted in ticks of       *)
(* 1/Scale second, so that ffprobe's fractional durations are covered.     *)
(***************************************************************************)
EXTENDS Integers, Sequences, FiniteSets, TLC

\* ---------------------------------------------------------------- bounds
\* ticks per second of the duration ffprobe reports
Scale == 2
\* largest short duration, in ticks
MaxDuration == 20
\* largest short interval, in seconds
MaxInterval == 4
\* most loop iterations of one extraction
MaxFrames == 3
\* number of different image contents
NumContents == 2

\* ------------------------------------------------------ program constants
\* the width of f"{int(current_time):04d}"
PadWidth == 4

\* the value of a variable that has not been assigned yet
Unset == 0 - 1

Contents == 1..NumContents

\* the first timestamp that needs more than PadWidth digits
LongTime == 10 ^ PadWidth

\* durations (in ticks) the video may have
Durations == (0..MaxDuration) \cup {Scale * LongTime, Scale * LongTime + 1}

\* argparse type=int: any integer is accepted, also 0 and negative ones
Intervals == ((0 - 1)..MaxInterval) \cup {LongTime \div 2}

VARIABLES
    state,              \* position of process_video
    duration,           \* float(result.stdout.strip()), in ticks
    interval,           \* args.interval
    no_pdf,             \* args.no_pdf
    current_time,       \* loop variable of the extraction
    screenshots_taken,  \* local counter of the extraction
    extract_files,      \* local list screenshot_files of the extraction
    progress,           \* last progress percentage computed
    captures,           \* every ffmpeg invocation so far: [t, ok]
    image,              \* bytes of every image file written, by file
    exists,             \* the image files present in images_dir
    screenshot_count,   \* process_video: first value returned by the extraction
    screenshot_files,   \* process_video: second value returned / dedup input
    idx,                \* position of the dedup loop in screenshot_files
    hashes,             \* dict hash -> first path seen
    duplicates_removed, \* local counter of the dedup
    duplicates,         \* value returned by the dedup
    faults,             \* exceptions swallowed by the dedup: <<run, kind, file>>
    run,                \* which invocation of the dedup is running
    pdf_result,         \* "none", "ok" or "failed": outcome of create_hd_pdf
    pdf_pages,          \* the images of the document, in page order
    pdf_file,           \* pdf_file= line of GITHUB_OUTPUT / PDF line of the summary
    result              \* "running", "True" or "False": value of process_video

vars == <<state, duration, interval, no_pdf, current_time, screenshots_taken,
          extract_files, progress, captures, image, exists, screenshot_count,
          screenshot_files, idx, hashes, duplicates_removed, duplicates, faults,
          run, pdf_result, pdf_pages, pdf_file, result>>

inputVars == <<duration, interval, no_pdf>>
extractVars == <<current_time, screenshots_taken, extract_files, progress, captures>>
dedupVars == <<idx, hashes, duplicates_removed, duplicates, faults, run>>
pdfVars == <<pdf_result, pdf_pages, pdf_file>>

\* ------------------------------------------------------------ file names
RECURSIVE Digits(_)
\* str(n) for n >= 0, as character codes
Digits(n) == IF n < 10 THEN <<48 + n>> ELSE Digits(n \div 10) \o <<48 + (n % 10)>>

RECURSIVE ZeroPad(_, _)
\* left-pads s with "0" up to width w; a longer s is left as it is
ZeroPad(s, w) == IF Len(s) >= w THEN s ELSE ZeroPad(<<48>> \o s, w)

\* f"{t:04d}": the sign counts towards the width
FormatPadded(t) ==
    IF t < 0 THEN <<45>> \o ZeroPad(Digits(0 - t), PadWidth - 1)
    ELSE ZeroPad(Digits(t), PadWidth)

\* the varying part of f"{title_prefix}_{time_str}.png": time_str and the extension
FileName(t) == FormatPadded(t) \o <<115, 46, 112, 110, 103>>

RECURSIVE StrLess(_, _)
\* Python's a < b on strings: lexicographic by character code
StrLess(a, b) ==
    IF b = <<>> THEN FALSE
    ELSE IF a = <<>> THEN TRUE
    ELSE IF Head(a) # Head(b) THEN Head(a) < Head(b)
    ELSE StrLess(Tail(a), Tail(b))

RECURSIVE SortByName(_)
\* sorted(Path(images_dir).iterdir()) restricted to the image files
SortByName(S) ==
    IF S = {} THEN <<>>
    ELSE LET m == CHOOSE x \in S : \A y \in S \ {x} : StrLess(FileName(x), FileName(y))
         IN <<m>> \o SortByName(S \ {m})

\* ------------------------------------------------------------- helpers
\* the function f extended or overwritten at k
Put(f, k, v) == [x \in DOMAIN f \cup {k} |-> IF x = k THEN v ELSE f[x]]

\* while current_time <= duration
InLoop == current_time * Scale <= duration

\* (current_time / duration) * 100, rounded down
Progress(t, d) == (t * Scale * 100) \div d

\* the branch taken with a zero count too
AfterExtraction_AnyCount(count) == IF count >= 0 THEN "Deduplicating" ELSE "Failed"

\* process_video: if screenshot_count > 0 ... else: return False
AfterExtraction(count) == IF count > 0 THEN "Deduplicating" ELSE "Failed"

\* the value process_video has returned on reaching state s
Returned(s) == IF s = "Failed" THEN "False" ELSE IF s = "Done" THEN "True" ELSE "running"

\* os.remove applied to the first-seen file instead of the current one
RemoveTarget_FirstSeen(p, h) == hashes[h]

\* os.remove(img_path): the file deleted when hash h of file p is already known
RemoveTarget(p, h) == p

\* the loop left after the first deletion
NextIndex_StopAfterRemoval(i, removed) == IF removed THEN Len(screenshot_files) + 1 ELSE i + 1

\* for img_path in screenshot_files: the loop goes on to the next file
NextIndex(i, removed) == i + 1

\* a failed document build made fatal
AfterDocument_FailureFatal(ok) == IF ok THEN "Reporting" ELSE "Failed"

\* process_video ignores what create_hd_pdf returns
AfterDocument(ok) == "Reporting"

\* ---------------------------------------------------------------- Init
InitLocals ==
    /\ current_time = 0
    /\ screenshots_taken = 0
    /\ extract_files = <<>>
    /\ progress = 0
    /\ captures = <<>>
    /\ idx = 0
    /\ hashes = [h \in {} |-> 0]
    /\ duplicates_removed = 0
    /\ duplicates = Unset
    /\ faults = {}
    /\ run = 1
    /\ pdf_result = "none"
    /\ pdf_pages = <<>>
    /\ pdf_file = ""
    /\ result = "running"

Init ==
    /\ state = "Idle"
    /\ duration \in Durations
    /\ interval \in Intervals
    /\ interval > 0 => duration \div (Scale * interval) < MaxFrames
    /\ no_pdf \in BOOLEAN
    /\ image = [f \in {} |-> 0]
    /\ exists = {}
    /\ screenshot_count = Unset
    /\ screenshot_files = <<>>
    /\ InitLocals

\* ------------------------------------------------------- process_video
\* get_video_info returned None: return False
GetVideoInfoFails ==
    /\ state = "Idle"
    /\ state' = "Failed"
    /\ result' = Returned("Failed")
    /\ UNCHANGED <<inputVars, extractVars, image, exists, screenshot_count,
                   screenshot_files, dedupVars, pdfVars>>

\* get_video_info returned the metadata; images_dir is created
GetVideoInfoOk ==
    /\ state = "Idle"
    /\ state' = "Downloading"
    /\ UNCHANGED <<inputVars, extractVars, image, exists, screenshot_count,
                   screenshot_files, dedupVars, pdfVars, result>>

\* download_video_and_transcript returned (False, False): return False
DownloadFails ==
    /\ state = "Downloading"
    /\ state' = "Failed"
    /\ result' = Returned("Failed")
    /\ UNCHANGED <<inputVars, extractVars, image, exists, screenshot_count,
                   screenshot_files, dedupVars, pdfVars>>

\* the video is downloaded; the extraction is called
DownloadOk ==
    /\ state = "Downloading"
    /\ state' = "Probing"
    /\ UNCHANGED <<inputVars, extractVars, image, exists, screenshot_count,
                   screenshot_files, dedupVars, pdfVars, result>>

\* --------------------------------------- extract_high_quality_screenshots
\* the extraction returns (count, files) to process_video, which branches on count
ExtractReturns(count, files) ==
    /\ screenshot_count' = count
    /\ screenshot_files' = files
    /\ state' = AfterExtraction(count)
    /\ result' = Returned(state')

\* ffprobe fails or prints no number: except Exception: return 0, []
FfprobeFails ==
    /\ state = "Probing"
    /\ ExtractReturns(0, <<>>)
    /\ UNCHANGED <<inputVars, extractVars, image, exists, dedupVars, pdfVars>>

\* ffprobe prints the duration; the loop starts at current_time = 0
FfprobeOk ==
    /\ state = "Probing"
    /\ state' = "Extracting"
    /\ current_time' = 0
    /\ screenshots_taken' = 0
    /\ extract_files' = <<>>
    /\ UNCHANGED <<inputVars, progress, captures, image, exists, screenshot_count,
                   screenshot_files, dedupVars, pdfVars, result>>

\* one iteration whose ffmpeg exits non-zero: check=True raises, the except
\* clause around the whole loop returns 0, []
CaptureFails ==
    /\ state = "Extracting"
    /\ InLoop
    /\ Len(captures) < MaxFrames
    /\ captures' = Append(captures, [t |-> current_time, ok |-> FALSE])
    /\ ExtractReturns(0, <<>>)
    /\ UNCHANGED <<inputVars, current_time, screenshots_taken, extract_files,
                   progress, image, exists, dedupVars, pdfVars>>

\* one iteration whose ffmpeg writes the image with bytes c; the progress
\* division raises ZeroDivisionError when duration is 0.0
CaptureSucceeds(c) ==
    /\ state = "Extracting"
    /\ InLoop
    /\ Len(captures) < MaxFrames
    /\ captures' = Append(captures, [t |-> current_time, ok |-> TRUE])
    /\ image' = Put(image, current_time, c)
    /\ exists' = exists \cup {current_time}
    /\ screenshots_taken' = screenshots_taken + 1
    /\ extract_files' = Append(extract_files, current_time)
    /\ IF duration = 0
       THEN /\ ExtractReturns(0, <<>>)
            /\ UNCHANGED <<current_time, progress>>
       ELSE /\ progress' = Progress(current_time, duration)
            /\ current_time' = current_time + interval
            /\ UNCHANGED <<state, screenshot_count, screenshot_files, result>>
    /\ UNCHANGED <<inputVars, dedupVars, pdfVars>>

\* current_time > duration: return screenshots_taken, screenshot_files
LoopExit ==
    /\ state = "Extracting"
    /\ ~InLoop
    /\ ExtractReturns(screenshots_taken, extract_files)
    /\ UNCHANGED <<inputVars, extractVars, image, exists, dedupVars, pdfVars>>

\* ------------------------------------------ remove_duplicate_screenshots
\* if len(screenshot_files) <= 1: return 0
DedupFastPath ==
    /\ state = "Deduplicating"
    /\ idx = 0
    /\ Len(screenshot_files) <= 1
    /\ duplicates' = 0
    /\ state' = "Deduplicated"
    /\ UNCHANGED <<inputVars, extractVars, image, exists, screenshot_count,
                   screenshot_files, idx, hashes, duplicates_removed, faults, run,
                   pdfVars, result>>

\* hashes = {}; duplicates_removed = 0; the loop starts
DedupBegin ==
    /\ state = "Deduplicating"
    /\ idx = 0
    /\ Len(screenshot_files) > 1
    /\ idx' = 1
    /\ hashes' = [h \in {} |-> 0]
    /\ duplicates_removed' = 0
    /\ UNCHANGED <<state, inputVars, extractVars, image, exists, screenshot_count,
                   screenshot_files, duplicates, faults, run, pdfVars, result>>

\* one iteration of the loop.  readOk: open/read of the file succeeds;
\* removeOk: os.remove succeeds.  A file that is gone can be neither read
\* nor removed.
DedupStep(readOk, removeOk) ==
    /\ state = "Deduplicating"
    /\ idx >= 1
    /\ idx <= Len(screenshot_files)
    /\ LET p == screenshot_files[idx]
           hashed == readOk /\ p \in exists
           known == hashed /\ image[p] \in DOMAIN hashes
           target == RemoveTarget(p, image[p])
           removed == known /\ removeOk /\ target \in exists
       IN /\ idx' = NextIndex(idx, removed)
          /\ hashes' = IF hashed /\ ~known THEN Put(hashes, image[p], p) ELSE hashes
          /\ exists' = IF removed THEN exists \ {target} ELSE exists
          /\ duplicates_removed' = IF removed THEN duplicates_removed + 1
                                   ELSE duplicates_removed
          /\ faults' = IF ~hashed THEN faults \cup {<<run, "hash", p>>}
                       ELSE IF known /\ ~removed THEN faults \cup {<<run, "remove", p>>}
                       ELSE faults
    /\ UNCHANGED <<state, inputVars, extractVars, image, screenshot_count,
                   screenshot_files, duplicates, run, pdfVars, result>>

\* return duplicates_removed
DedupReturn ==
    /\ state = "Deduplicating"
    /\ idx > Len(screenshot_files)
    /\ duplicates' = duplicates_removed
    /\ state' = "Deduplicated"
    /\ UNCHANGED <<inputVars, extractVars, image, exists, screenshot_count,
                   screenshot_files, idx, hashes, duplicates_removed, faults, run,
                   pdfVars, result>>

\* ------------------------------------------------ process_video, continued
\* if not no_pdf: create_hd_pdf(images_dir, pdf_path, pdf_dpi)
StartDocument ==
    /\ state = "Deduplicated"
    /\ state' = IF no_pdf THEN "Reporting" ELSE "DocumentBuilding"
    /\ UNCHANGED <<inputVars, extractVars, image, exists, screenshot_count,
                   screenshot_files, dedupVars, pdfVars, result>>

\* the body shared by create_hd_pdf and create_pdf_with_pillow: the images of
\* images_dir sorted by name; no image, or an exception of the converter
\* (ok = FALSE), gives False, otherwise the document holds the images in
\* that order.  Only output_pdf is written.
DocumentBuilt(ok) ==
    LET image_files == SortByName(exists)
        success == ok /\ image_files # <<>>
    IN /\ pdf_result' = IF success THEN "ok" ELSE "failed"
       /\ pdf_pages' = IF success THEN image_files ELSE <<>>
       /\ state' = AfterDocument(success)
       /\ result' = Returned(state')
       /\ UNCHANGED <<inputVars, extractVars, image, exists, screenshot_count,
                      screenshot_files, dedupVars, pdf_file>>

\* create_hd_pdf with img2pdf installed
CreateHdPdf(ok) ==
    /\ state = "DocumentBuilding"
    /\ DocumentBuilt(ok)

\* import img2pdf raises ImportError: create_pdf_with_pillow
CreatePdfWithPillow(ok) ==
    /\ state = "DocumentBuilding"
    /\ DocumentBuilt(ok)

\* the summary, the GITHUB_OUTPUT lines and return True
Report ==
    /\ state = "Reporting"
    /\ pdf_file' = IF ~no_pdf THEN "HD.pdf" ELSE ""
    /\ state' = "Done"
    /\ result' = Returned("Done")
    /\ UNCHANGED <<inputVars, extractVars, image, exists, screenshot_count,
                   screenshot_files, dedupVars, pdf_result, pdf_pages>>

\* ------------------------------------------------------- specifications
Next ==
    \/ GetVideoInfoFails
    \/ GetVideoInfoOk
    \/ DownloadFails
    \/ DownloadOk
    \/ FfprobeFails
    \/ FfprobeOk
    \/ CaptureFails
    \/ \E c \in Contents : CaptureSucceeds(c)
    \/ LoopExit
    \/ DedupFastPath
    \/ DedupBegin
    \/ \E readOk \in BOOLEAN, removeOk \in BOOLEAN : DedupStep(readOk, removeOk)
    \/ DedupReturn
    \/ StartDocument
    \/ \E ok \in BOOLEAN : CreateHdPdf(ok)
    \/ \E ok \in BOOLEAN : CreatePdfWithPillow(ok)
    \/ Report

\* one run of process_video
Spec == Init /\ [][Next]_vars

\* process_video is sequential code: a step that can be taken is taken
FairSpec == Spec /\ WF_vars(Next)

\* remove_duplicate_screenshots on its own, called on what a complete
\* extraction of n frames every i seconds has left, and called again on the
\* files that are still there
InitDedup ==
    /\ state = "Deduplicating"
    /\ \E n \in 0..MaxFrames, i \in 1..MaxInterval :
          /\ interval = i
          /\ duration = IF n = 0 THEN 0 ELSE Scale * i * (n - 1) + 1
          /\ screenshot_files = [k \in 1..n |-> (k - 1) * i]
          /\ extract_files = screenshot_files
          /\ captures = [k \in 1..n |-> [t |-> (k - 1) * i, ok |-> TRUE]]
          /\ exists = {(k - 1) * i : k \in 1..n}
          /\ image \in [exists -> Contents]
          /\ screenshot_count = n
          /\ screenshots_taken = n
          /\ current_time = n * i
          /\ progress = IF n = 0 THEN 0 ELSE Progress((n - 1) * i, duration)
    /\ no_pdf = TRUE
    /\ idx = 0
    /\ hashes = [h \in {} |-> 0]
    /\ duplicates_removed = 0
    /\ duplicates = Unset
    /\ faults = {}
    /\ run = 1
    /\ pdf_result = "none"
    /\ pdf_pages = <<>>
    /\ pdf_file = ""
    /\ result = "running"

\* the files of the input that still exist
Survivors == SelectSeq(screenshot_files, LAMBDA p : p \in exists)

\* the second call, on the survivors of the first
DedupAgain ==
    /\ state = "Deduplicated"
    /\ run = 1
    /\ run' = 2
    /\ screenshot_files' = Survivors
    /\ idx' = 0
    /\ duplicates' = Unset
    /\ state' = "Deduplicating"
    /\ UNCHANGED <<inputVars, extractVars, image, exists, screenshot_count, hashes,
                   duplicates_removed, faults, pdfVars, result>>

NextDedup ==
    \/ DedupFastPath
    \/ DedupBegin
    \/ \E readOk \in BOOLEAN, removeOk \in BOOLEAN : DedupStep(readOk, removeOk)
    \/ DedupReturn
    \/ DedupAgain

SpecDedup == InitDedup /\ [][NextDedup]_vars

\* ------------------------------------------------------------- notions
\* the timestamps at which ffmpeg was invoked, in order
Visited == [k \in 1..Len(captures) |-> captures[k].t]

\* the timestamps whose capture succeeded, in order
Captured ==
    LET good == SelectSeq(captures, LAMBDA c : c.ok)
    IN [k \in 1..Len(good) |-> good[k].t]

\* 0, interval, 2*interval, ... up to the largest multiple <= duration
Grid == [k \in 1..(duration \div (Scale * interval)) + 1 |-> (k - 1) * interval]

\* the extraction has returned to process_video
ExtractionReturned == screenshot_count # Unset

\* the sampling loop has run and the extraction has returned
LoopFinished == ExtractionReturned /\ captures # <<>>

AllCapturesSucceeded == \A k \in 1..Len(captures) : captures[k].ok

Ascending(s) == \A j, k \in 1..Len(s) : j < k => s[j] < s[k]

\* the fingerprint the first dedup run computed for file p; 0 when the read failed
Fingerprint(p) == IF <<1, "hash", p>> \in faults THEN 0 ELSE image[p]

\* file k of the input is the first / a later one with its fingerprint
FirstOccurrence(k) ==
    /\ Fingerprint(screenshot_files[k]) # 0
    /\ \A j \in 1..(k - 1) :
          Fingerprint(screenshot_files[j]) # Fingerprint(screenshot_files[k])

LaterOccurrence(k) ==
    /\ Fingerprint(screenshot_files[k]) # 0
    /\ \E j \in 1..(k - 1) :
          Fingerprint(screenshot_files[j]) = Fingerprint(screenshot_files[k])

\* the dedup of process_video has returned
DedupReturned == run = 1 /\ duplicates # Unset

\* no read and no deletion failed in the first dedup run
FirstRunClean == \A f \in faults : f[1] # 1

\* ------------------------------------------------------------------ C1
\* C1: when a capture fails during an extraction with interval > 0, the result
\* returned holds exactly the files of the timestamps whose capture succeeded,
\* in order.
C1_FailedCaptureSkipped ==
    (LoopFinished /\ interval > 0 /\ ~AllCapturesSucceeded) =>
        /\ screenshot_files = Captured
        /\ screenshot_count = Len(Captured)

\* ------------------------------------------------------------------ C2
\* C2: with interval <= 0 no frame capture is ever invoked.
C2_NoCaptureOnBadInterval == interval <= 0 => captures = <<>>

\* ------------------------------------------------------------------ C4
\* C4: for interval > 0 the finished sampling loop has visited exactly
\* floor(duration/interval)+1 timestamps, strictly ascending, the first 0 and
\* the last <= duration.
C4_LoopVisitsGrid ==
    (LoopFinished /\ interval > 0) =>
        /\ Len(Visited) = (duration \div (Scale * interval)) + 1
        /\ Ascending(Visited)
        /\ Visited[1] = 0
        /\ Visited[Len(Visited)] * Scale <= duration

\* ------------------------------------------------------------------ C5
\* C5: for interval > 0 and every duration >= 0, with all captures succeeding,
\* the extraction returns what the loop without the progress computation
\* returns: one file per timestamp of the grid, and their number.
C5_ProgressObservational ==
    (LoopFinished /\ interval > 0 /\ AllCapturesSucceeded) =>
        /\ screenshot_files = Grid
        /\ screenshot_count = Len(Grid)

\* ------------------------------------------------------------------ C6
\* C6: when the extraction returns zero artifacts process_video is in Failed,
\* has returned False, and neither the dedup nor the document build has run.
C6_NoFramesFails ==
    screenshot_count = 0 =>
        /\ state = "Failed"
        /\ result = "False"
        /\ idx = 0
        /\ duplicates = Unset
        /\ pdf_result = "none"
        /\ pdf_file = ""

\* all capture attempts failed and the run is in Failed
C6_Witness ==
    /\ state = "Failed"
    /\ screenshot_count = 0
    /\ captures # <<>>
    /\ \A k \in 1..Len(captures) : ~captures[k].ok

C8_NamesSortTemporally ==
    interval > 0 =>
        /\ \A j, k \in 1..Len(Captured) :
              Captured[j] < Captured[k] =>
                  StrLess(FileName(Captured[j]), FileName(Captured[k]))
        /\ Ascending(pdf_pages)

\* ------------------------------------------------------------------ C3
\* C3 as stated: after the dedup the survivors are in the order of the input,
\* the first occurrence of every fingerprint is kept, every later occurrence
\* is gone, and of two byte-identical images exactly the later one is gone.
C3_LaterOccurrencesGone ==
    DedupReturned =>
        /\ Ascending(Survivors)
        /\ \A k \in 1..Len(screenshot_files) :
              FirstOccurrence(k) => screenshot_files[k] \in exists
        /\ \A k \in 1..Len(screenshot_files) :
              LaterOccurrence(k) => screenshot_files[k] \notin exists
        /\ (Len(screenshot_files) = 2 /\ image[screenshot_files[1]] = image[screenshot_files[2]])
              => (screenshot_files[1] \in exists /\ screenshot_files[2] \notin exists)

\* C3 amended: after the dedup the survivors are in the order of the input,
\* the first occurrence of every fingerprint is kept, every later occurrence
\* is gone unless its deletion failed, only later occurrences are gone, and
\* the count returned is the number of files deleted.
C3_FirstKeptLaterRemovedUnlessFault ==
    DedupReturned =>
        /\ Ascending(Survivors)
        /\ \A k \in 1..Len(screenshot_files) :
              FirstOccurrence(k) => screenshot_files[k] \in exists
        /\ \A k \in 1..Len(screenshot_files) :
              LaterOccurrence(k) =>
                  \/ screenshot_files[k] \notin exists
                  \/ <<1, "remove", screenshot_files[k]>> \in faults
        /\ \A k \in 1..Len(screenshot_files) :
              screenshot_files[k] \notin exists => LaterOccurrence(k)
        /\ duplicates = Len(screenshot_files) - Len(Survivors)

\* three frames, two of them byte-identical: two survivors, one removed
C3_Witness ==
    /\ DedupReturned
    /\ Len(screenshot_files) = 3
    /\ Len(Survivors) = 2
    /\ duplicates = 1
    /\ faults = {}

C10_ReportedDocumentWasBuilt == pdf_file # "" => pdf_result = "ok"
====
